---- MODULE Spec2Model ----
(***************************************************************************)
(* Unit Converter: the conversion engine of app.py (Gradio) and of         *)
(* streamlit_app.py (Streamlit), and the Gradio front-end's unit           *)
(* selection.                                                              *)
(*                                                                         *)
(* Text is a sequence of characters, each a one-character string, or the   *)
(* name of its code point ("U+00B0") when it is not ASCII.  A float is an  *)
(* IEEE 754 binary64 value: sign, 53-bit significand and exponent, the     *)
(* significand held as an unbounded natural (a sequence of 15-bit limbs),  *)
(* every operation rounded to nearest, ties to even, as CPython does.      *)
(***************************************************************************)
EXTENDS Integers, Sequences, FiniteSets, TLC

(***************************************************************************)
(* Call(f, args) applies the definition named f to args.  The arithmetic   *)
(* and the text conversions below refer to one another through it, under   *)
(* the names defined here, so that every definition is expanded once, at   *)
(* the one place Call names it, however many uses it has.                  *)
(***************************************************************************)
RECURSIVE Call(_, _)

BMul(a, b) == Call("BMul", <<a, b>>)
BDivRem(a, b) == Call("BDivRem", <<a, b>>)
BPow10(n) == Call("BPow10", <<n>>)
RoundRat(s, n, d, e2) == Call("RoundRat", <<s, n, d, e2>>)
FAdd(x, y) == Call("FAdd", <<x, y>>)
FMul(x, y) == Call("FMul", <<x, y>>)
FDiv(x, y) == Call("FDiv", <<x, y>>)
FloatFromText(text) == Call("FloatFromText", <<text>>)
FormatG(x, p) == Call("FormatG", <<x, p>>)
Repr(x) == Call("Repr", <<x>>)
GePow10(m, e, k) == Call("GePow10", <<m, e, k>>)
FloorLog10(m, e) == Call("FloorLog10", <<m, e>>)
Scaled(m, e, x, p) == Call("Scaled", <<m, e, x, p>>)
DecDigits(m, e, p) == Call("DecDigits", <<m, e, p>>)
Layout(ds, x, useExp, dot0) == Call("Layout", <<ds, x, useExp, dot0>>)
ShortAt(x, n) == Call("ShortAt", <<x, n>>)
ShortDigits(x) == Call("ShortDigits", <<x>>)

(***************************************************************************)
(* Unbounded naturals: little-endian sequences of limbs in 0..Base-1 with  *)
(* no high zero limb; zero is the empty sequence.                          *)
(***************************************************************************)
LimbBits == 15
Base == 2^LimbBits

Min2(a, b) == IF a <= b THEN a ELSE b
Max2(a, b) == IF a >= b THEN a ELSE b

Zeros(n) == [i \in 1..n |-> 0]

\* the index of the highest non-zero limb among 1..hi, 0 when there is none
RECURSIVE BTop(_, _, _)
BTop(a, lo, hi) ==
  IF lo > hi THEN 0
  ELSE IF lo = hi THEN (IF a[lo] = 0 THEN 0 ELSE lo)
  ELSE LET mid == (lo + hi) \div 2
           h   == BTop(a, mid + 1, hi)
       IN  IF h # 0 THEN h ELSE BTop(a, lo, mid)

BNorm(a) ==
  IF a = <<>> THEN a
  ELSE IF a[Len(a)] # 0 THEN a
  ELSE SubSeq(a, 1, BTop(a, 1, Len(a)))

\* a machine integer 0 <= n < 2^31 as a natural
BFromInt(n) == BNorm(<<n % Base, (n \div Base) % Base, n \div (Base * Base)>>)

BZero == <<>>
BOne == <<1>>
BIsZero(a) == a = <<>>

Limb(a, i) == IF i <= Len(a) THEN a[i] ELSE 0

\* Limb-wise operations split their range in two halves, the carry (borrow,
\* remainder) of the first half entering the second, so that the depth of
\* the evaluation is logarithmic in the number of limbs.

\* -1, 0, 1 as a < b, a = b, a > b on limbs lo..hi, the high limbs first
RECURSIVE BCmpRange(_, _, _, _)
BCmpRange(a, b, lo, hi) ==
  IF lo > hi THEN 0
  ELSE IF lo = hi THEN (IF a[lo] < b[lo] THEN -1 ELSE IF a[lo] > b[lo] THEN 1 ELSE 0)
  ELSE LET mid == (lo + hi) \div 2
           h   == BCmpRange(a, b, mid + 1, hi)
       IN  IF h # 0 THEN h ELSE BCmpRange(a, b, lo, mid)

BCmp(a, b) ==
  IF Len(a) < Len(b) THEN -1
  ELSE IF Len(a) > Len(b) THEN 1
  ELSE BCmpRange(a, b, 1, Len(a))

\* limbs lo..hi of a + b + c, and the carry out of them
RECURSIVE BAddRange(_, _, _, _, _)
BAddRange(a, b, lo, hi, c) ==
  IF lo = hi
  THEN LET s == Limb(a, lo) + Limb(b, lo) + c
       IN  [s |-> <<s % Base>>, c |-> s \div Base]
  ELSE LET mid == (lo + hi) \div 2
           l   == BAddRange(a, b, lo, mid, c)
           h   == BAddRange(a, b, mid + 1, hi, l.c)
       IN  [s |-> l.s \o h.s, c |-> h.c]

BAdd(a, b) ==
  IF a = <<>> THEN b
  ELSE IF b = <<>> THEN a
  ELSE LET r == BAddRange(a, b, 1, Max2(Len(a), Len(b)), 0)
       IN  IF r.c = 0 THEN r.s ELSE Append(r.s, r.c)

\* limbs lo..hi of a - b - c, and the borrow out of them
RECURSIVE BSubRange(_, _, _, _, _)
BSubRange(a, b, lo, hi, c) ==
  IF lo = hi
  THEN LET s == a[lo] - Limb(b, lo) - c
       IN  IF s < 0 THEN [s |-> <<s + Base>>, c |-> 1] ELSE [s |-> <<s>>, c |-> 0]
  ELSE LET mid == (lo + hi) \div 2
           l   == BSubRange(a, b, lo, mid, c)
           h   == BSubRange(a, b, mid + 1, hi, l.c)
       IN  [s |-> l.s \o h.s, c |-> h.c]

\* a - b for a >= b
BSub(a, b) == IF b = <<>> THEN a ELSE BNorm(BSubRange(a, b, 1, Len(a), 0).s)

\* limbs lo..hi of a * k + c for 0 <= k, c < Base, and the carry out of them
RECURSIVE BMulSmallRange(_, _, _, _, _)
BMulSmallRange(a, k, lo, hi, c) ==
  IF lo = hi
  THEN LET s == a[lo] * k + c
       IN  [s |-> <<s % Base>>, c |-> s \div Base]
  ELSE LET mid == (lo + hi) \div 2
           l   == BMulSmallRange(a, k, lo, mid, c)
           h   == BMulSmallRange(a, k, mid + 1, hi, l.c)
       IN  [s |-> l.s \o h.s, c |-> h.c]

BMulAdd(a, k, c) ==
  IF a = <<>> \/ k = 0 THEN BFromInt(c)
  ELSE LET r == BMulSmallRange(a, k, 1, Len(a), c)
       IN  IF r.c = 0 THEN r.s ELSE Append(r.s, r.c)

BMulSmall(a, k) == IF k = 1 THEN a ELSE BMulAdd(a, k, 0)

\* a * Base^n
BShiftLimbs(a, n) == IF a = <<>> \/ n = 0 THEN a ELSE Zeros(n) \o a

\* a times limbs lo..hi of b, each at its place
RECURSIVE BMulRange(_, _, _, _)
BMulRange(a, b, lo, hi) ==
  IF lo = hi THEN BShiftLimbs(BMulSmall(a, b[lo]), lo - 1)
  ELSE LET mid == (lo + hi) \div 2
       IN  BAdd(BMulRange(a, b, lo, mid), BMulRange(a, b, mid + 1, hi))

BMulImpl(a, b) ==
  IF a = <<>> \/ b = <<>> THEN <<>>
  ELSE IF Len(a) >= Len(b) THEN BMulRange(a, b, 1, Len(b)) ELSE BMulRange(b, a, 1, Len(a))

\* the number of bits of 0 <= n < Base
RECURSIVE IntBits(_)
IntBits(n) == IF n = 0 THEN 0 ELSE 1 + IntBits(n \div 2)

BBitLen(a) == IF a = <<>> THEN 0 ELSE (Len(a) - 1) * LimbBits + IntBits(a[Len(a)])

\* a * 2^n
BShl(a, n) == BShiftLimbs(BMulSmall(a, 2^(n % LimbBits)), n \div LimbBits)

BIsOdd(a) == a # <<>> /\ a[1] % 2 = 1

\* limbs lo..hi of the quotient of a by d, 0 < d < Base, the high limbs
\* first, r the remainder coming in from above; and the remainder going out
RECURSIVE BDivSmallRange(_, _, _, _, _)
BDivSmallRange(a, d, lo, hi, r) ==
  IF lo = hi
  THEN LET t == r * Base + a[lo]
       IN  [q |-> <<t \div d>>, r |-> t % d]
  ELSE LET mid == (lo + hi) \div 2
           h   == BDivSmallRange(a, d, mid + 1, hi, r)
           l   == BDivSmallRange(a, d, lo, mid, h.r)
       IN  [q |-> l.q \o h.q, r |-> l.r]

BDivSmall(a, d) ==
  IF a = <<>> THEN [q |-> <<>>, r |-> 0]
  ELSE LET x == BDivSmallRange(a, d, 1, Len(a), 0)
       IN  [q |-> BNorm(x.q), r |-> x.r]

\* One quotient limb of r \div b, where r < b * Base and the high limb of b
\* is at least Base/2: the estimate from the two high limbs of r is at most
\* two too large.
RECURSIVE BQLimbFix(_, _, _)
BQLimbFix(r, b, q) ==
  IF BCmp(BMulSmall(b, q), r) = 1 THEN BQLimbFix(r, b, q - 1) ELSE q

BQLimb(r, b) ==
  LET n == Len(b)
      est == (Limb(r, n + 1) * Base + Limb(r, n)) \div b[n]
  IN  BQLimbFix(r, b, Min2(est, Base - 1))

\* long division of a by b (normalised as above), from limb i of a down,
\* with running remainder r
RECURSIVE BDivAt(_, _, _, _, _)
BDivAt(a, b, i, r, acc) ==
  IF i = 0 THEN [q |-> BNorm(acc), r |-> r]
  ELSE LET t == BNorm(<<a[i]>> \o r)
           q == BQLimb(t, b)
       IN  BDivAt(a, b, i - 1, BSub(t, BMulSmall(b, q)), <<q>> \o acc)

\* a \div b with what rounding needs of the remainder: whether it is zero,
\* and how twice the remainder compares with b
BDivRemImpl(a, b) ==
  IF Len(b) = 1
  THEN LET d == BDivSmall(a, b[1])
       IN  [q |-> d.q, zero |-> d.r = 0,
            half |-> IF 2 * d.r < b[1] THEN -1 ELSE IF 2 * d.r = b[1] THEN 0 ELSE 1]
  ELSE LET sh == LimbBits - IntBits(b[Len(b)])
           an == BShl(a, sh)
           bn == BShl(b, sh)
           k  == Min2(Len(an), Len(bn) - 1)
           d  == BDivAt(an, bn, Len(an) - k, SubSeq(an, Len(an) - k + 1, Len(an)), <<>>)
       IN  [q |-> d.q, zero |-> d.r = <<>>, half |-> BCmp(BMulSmall(d.r, 2), bn)]

\* a / b rounded to the nearest natural, ties to even
BDivRound(a, b) ==
  LET d == BDivRem(a, b)
  IN  IF d.half = 1 \/ (d.half = 0 /\ BIsOdd(d.q)) THEN BAdd(d.q, BOne) ELSE d.q

RECURSIVE BPow(_, _)
BPow(k, n) ==
  IF n = 0 THEN BOne
  ELSE IF n % 2 = 1 THEN BMulSmall(BPow(k, n - 1), k)
  ELSE LET h == BPow(k, n \div 2) IN BMul(h, h)

BPow2(n) == BShl(BOne, n)
BPow10Impl(n) == BShl(BPow(5, n), n)

(***************************************************************************)
(* Python's float: IEEE 754 binary64.  A finite value is                   *)
(* (-1)^s * m * 2^e with m < 2^53, e >= -1074, and m >= 2^52 unless        *)
(* e = -1074 (a subnormal, or zero); so equal values are equal records.    *)
(***************************************************************************)
MantBits == 53
MinExp == -1074
MaxExp == 971

Fin(s, m, e) == [k |-> "fin", s |-> s, m |-> m, e |-> e]
FZero(s) == Fin(s, <<>>, MinExp)
FInf(s) == [k |-> "inf", s |-> s, m |-> <<>>, e |-> 0]
FNaN == [k |-> "nan", s |-> 0, m |-> <<>>, e |-> 0]

IsFinite(x) == x.k = "fin"
IsZero(x) == x.k = "fin" /\ x.m = <<>>

\* floor(log2(n / d)) for naturals n, d > 0
FloorLog2(n, d) ==
  LET bn == BBitLen(n)
      bd == BBitLen(d)
      ge == IF bn >= bd THEN BCmp(n, BShl(d, bn - bd)) >= 0
                        ELSE BCmp(BShl(n, bd - bn), d) >= 0
  IN  IF ge THEN bn - bd ELSE bn - bd - 1

\* (-1)^s * (n / d) * 2^e2 rounded to the nearest binary64, ties to even
RoundRatImpl(s, n, d, e2) ==
  IF n = <<>> THEN FZero(s)
  ELSE LET lg == FloorLog2(n, d) + e2
       IN  IF lg > MaxExp + MantBits - 1 THEN FInf(s)
           ELSE IF lg < MinExp - 1 THEN FZero(s)
           ELSE LET ue == Max2(lg - (MantBits - 1), MinExp)
                    t  == e2 - ue
                    q  == BDivRound(BShl(n, Max2(t, 0)), BShl(d, Max2(-t, 0)))
                    up == BBitLen(q) > MantBits
                    m  == IF up THEN BPow2(MantBits - 1) ELSE q
                    e  == IF up THEN ue + 1 ELSE ue
               IN  IF e > MaxExp THEN FInf(s) ELSE Fin(s, m, e)

FNeg(x) == IF x.k = "nan" THEN x ELSE [x EXCEPT !.s = 1 - x.s]

\* x + y
FAddImpl(x, y) ==
  IF x.k = "nan" \/ y.k = "nan" THEN FNaN
  ELSE IF x.k = "inf" THEN (IF y.k = "inf" /\ y.s # x.s THEN FNaN ELSE x)
  ELSE IF y.k = "inf" THEN y
  ELSE IF x.m = <<>> /\ y.m = <<>> THEN FZero(IF x.s = 1 /\ y.s = 1 THEN 1 ELSE 0)
  ELSE IF x.m = <<>> THEN y
  ELSE IF y.m = <<>> THEN x
  ELSE LET e  == Min2(x.e, y.e)
           a  == BShl(x.m, x.e - e)
           b  == BShl(y.m, y.e - e)
           c  == BCmp(a, b)
       IN  IF x.s = y.s THEN RoundRat(x.s, BAdd(a, b), BOne, e)
           ELSE IF c = 0 THEN FZero(0)
           ELSE IF c = 1 THEN RoundRat(x.s, BSub(a, b), BOne, e)
           ELSE RoundRat(y.s, BSub(b, a), BOne, e)

\* x - y
FSub(x, y) == FAdd(x, FNeg(y))

XorSign(a, b) == IF a = b THEN 0 ELSE 1

\* x * y
FMulImpl(x, y) ==
  IF x.k = "nan" \/ y.k = "nan" THEN FNaN
  ELSE IF x.k = "inf" \/ y.k = "inf"
       THEN (IF IsZero(x) \/ IsZero(y) THEN FNaN ELSE FInf(XorSign(x.s, y.s)))
  ELSE IF x.m = <<>> \/ y.m = <<>> THEN FZero(XorSign(x.s, y.s))
  ELSE RoundRat(XorSign(x.s, y.s), BMul(x.m, y.m), BOne, x.e + y.e)

\* x / y for y other than zero (Python raises ZeroDivisionError on zero)
FDivImpl(x, y) ==
  IF x.k = "nan" \/ y.k = "nan" THEN FNaN
  ELSE IF x.k = "inf" THEN (IF y.k = "inf" THEN FNaN ELSE FInf(XorSign(x.s, y.s)))
  ELSE IF y.k = "inf" THEN FZero(XorSign(x.s, y.s))
  ELSE IF x.m = <<>> THEN FZero(XorSign(x.s, y.s))
  ELSE RoundRat(XorSign(x.s, y.s), x.m, y.m, x.e - y.e)

(***************************************************************************)
(* Text: sequences of characters.                                          *)
(***************************************************************************)
DigitChars == <<"0", "1", "2", "3", "4", "5", "6", "7", "8", "9">>
IsDigit(c) == \E i \in 1..10 : DigitChars[i] = c
DigitVal(c) == (CHOOSE i \in 1..10 : DigitChars[i] = c) - 1
Whitespace == {" ", "\t", "\n", "\r", "\f"}

\* s.lower() on the letters float() looks for
Lower(c) ==
  CASE c = "I" -> "i" [] c = "N" -> "n" [] c = "F" -> "f" [] c = "T" -> "t"
    [] c = "Y" -> "y" [] c = "A" -> "a" [] c = "E" -> "e" [] OTHER -> c

LowerText(s) == [i \in 1..Len(s) |-> Lower(s[i])]

\* s.strip()
Strip(s) ==
  LET keep == {i \in 1..Len(s) : s[i] \notin Whitespace}
  IN  IF keep = {} THEN <<>>
      ELSE SubSeq(s, CHOOSE i \in keep : \A j \in keep : i <= j,
                     CHOOSE i \in keep : \A j \in keep : i >= j)

\* the first index of character c in s, 0 when there is none
IndexOf(s, c) ==
  IF \E i \in 1..Len(s) : s[i] = c
  THEN CHOOSE i \in 1..Len(s) : s[i] = c /\ \A j \in 1..(i - 1) : s[j] # c
  ELSE 0

\* Python's "sub in s"
Contains(s, sub) ==
  \E i \in 0..(Len(s) - Len(sub)) : \A j \in 1..Len(sub) : s[i + j] = sub[j]

AllDigits(s) == \A i \in 1..Len(s) : IsDigit(s[i])

\* the natural a run of decimal digits denotes
RECURSIVE DigitsToBig(_, _, _)
DigitsToBig(s, i, acc) ==
  IF i > Len(s) THEN acc ELSE DigitsToBig(s, i + 1, BMulAdd(acc, 10, DigitVal(s[i])))

\* a decimal exponent, saturated: beyond it every value is 0 or infinite
ExpCap == 100000
RECURSIVE DigitsToInt(_, _, _)
DigitsToInt(s, i, acc) ==
  IF i > Len(s) THEN acc
  ELSE DigitsToInt(s, i + 1, Min2(acc * 10 + DigitVal(s[i]), ExpCap))

\* the decimal digits of a natural, high digit first, at least n of them
RECURSIVE BigDigits(_, _, _)
BigDigits(a, n, acc) ==
  IF a = <<>> /\ n <= 0 THEN acc
  ELSE LET d == BDivSmall(a, 10) IN BigDigits(d.q, n - 1, <<d.r>> \o acc)

DigitsText(ds) == [i \in 1..Len(ds) |-> DigitChars[ds[i] + 1]]
IntText(n, width) == DigitsText(BigDigits(BFromInt(n), width, <<>>))

(***************************************************************************)
(* float(s) of a str: CPython strips white space, takes underscores        *)
(* between digits, an optional sign, then inf / infinity / nan in any case *)
(* or a decimal with an optional exponent, and rounds the decimal          *)
(* correctly.  A result is [ok, v]; not ok is ValueError.                  *)
(***************************************************************************)
NoFloat == [ok |-> FALSE, v |-> FNaN]
SomeFloat(v) == [ok |-> TRUE, v |-> v]

UnderscoresOk(s) ==
  \A i \in 1..Len(s) :
     s[i] = "_" => (i > 1 /\ i < Len(s) /\ IsDigit(s[i - 1]) /\ IsDigit(s[i + 1]))

NotUnderscore(c) == c # "_"

\* (-1)^sign * digits * 10^exp10, correctly rounded
DecimalToFloat(sign, digits, exp10) ==
  LET n == DigitsToBig(digits, 1, <<>>)
  IN  IF n = <<>> THEN FZero(sign)
      ELSE IF exp10 > 400 THEN FInf(sign)
      ELSE IF exp10 + Len(digits) < -400 THEN FZero(sign)
      ELSE RoundRat(sign, BMul(n, BPow10(Max2(exp10, 0))), BPow10(Max2(-exp10, 0)), 0)

ParseDecimal(sign, s) ==
  LET low  == LowerText(s)
      ePos == IndexOf(low, "e")
      mant == IF ePos = 0 THEN s ELSE SubSeq(s, 1, ePos - 1)
      expo == IF ePos = 0 THEN <<>> ELSE SubSeq(s, ePos + 1, Len(s))
      eNeg == expo # <<>> /\ expo[1] = "-"
      eDig == IF expo # <<>> /\ expo[1] \in {"+", "-"} THEN Tail(expo) ELSE expo
      dot  == IndexOf(mant, ".")
      ip   == IF dot = 0 THEN mant ELSE SubSeq(mant, 1, dot - 1)
      fp   == IF dot = 0 THEN <<>> ELSE SubSeq(mant, dot + 1, Len(mant))
      ev   == DigitsToInt(eDig, 1, 0)
  IN  IF /\ AllDigits(ip) /\ AllDigits(fp) /\ Len(ip) + Len(fp) > 0
         /\ (ePos = 0 \/ (Len(eDig) > 0 /\ AllDigits(eDig)))
      THEN SomeFloat(DecimalToFloat(sign, ip \o fp,
                                    (IF eNeg THEN -ev ELSE ev) - Len(fp)))
      ELSE NoFloat

FloatFromTextImpl(text) ==
  LET t    == Strip(text)
      u    == SelectSeq(t, NotUnderscore)
      sign == IF u # <<>> /\ u[1] = "-" THEN 1 ELSE 0
      body == IF u # <<>> /\ u[1] \in {"+", "-"} THEN Tail(u) ELSE u
      low  == LowerText(body)
  IN  IF ~UnderscoresOk(t) \/ body = <<>> THEN NoFloat
      ELSE IF low = <<"i", "n", "f">> \/ low = <<"i", "n", "f", "i", "n", "i", "t", "y">>
           THEN SomeFloat(FInf(sign))
      ELSE IF low = <<"n", "a", "n">> THEN SomeFloat(FNaN)
      ELSE ParseDecimal(sign, body)

(***************************************************************************)
(* Float to text: format(x, ".6g") and repr(x).                            *)
(***************************************************************************)
\* whether m * 2^e >= 10^k, for m > 0
GePow10Impl(m, e, k) ==
  BCmp(BMul(BShl(m, Max2(e, 0)), BPow10(Max2(-k, 0))),
       BShl(BPow10(Max2(k, 0)), Max2(-e, 0))) >= 0

\* floor(log10(m * 2^e)) for m > 0: an estimate from the bit length, adjusted
FloorLog10Impl(m, e) ==
  LET bl == BBitLen(m) + e
      x0 == ((bl - 1) * 30103) \div 100000
  IN  IF GePow10(m, e, x0 + 1) THEN x0 + 1
      ELSE IF GePow10(m, e, x0) THEN x0 ELSE x0 - 1

\* m * 2^e / 10^(x - p + 1): the quotient and remainder that decide the p
\* digits of the value whose decimal exponent is x
ScaledImpl(m, e, x, p) ==
  BDivRem(BMul(BShl(m, Max2(e, 0)), BPow10(Max2(p - 1 - x, 0))),
          BMul(BPow2(Max2(-e, 0)), BPow10(Max2(x - p + 1, 0))))

\* the p significant decimal digits of m * 2^e, correctly rounded (ties to
\* even), with the decimal exponent of the first digit
DecDigitsImpl(m, e, p) ==
  LET x  == FloorLog10(m, e)
      d  == Scaled(m, e, x, p)
      q  == IF d.half = 1 \/ (d.half = 0 /\ BIsOdd(d.q)) THEN BAdd(d.q, BOne) ELSE d.q
      ds == BigDigits(q, p, <<>>)
  IN  IF Len(ds) > p THEN [ds |-> SubSeq(ds, 1, p), x |-> x + 1]
      ELSE [ds |-> ds, x |-> x]

\* digits without their trailing zeros, one digit at least
RECURSIVE StripZeros(_)
StripZeros(ds) ==
  IF Len(ds) > 1 /\ ds[Len(ds)] = 0 THEN StripZeros(SubSeq(ds, 1, Len(ds) - 1)) ELSE ds

\* digits ds with decimal exponent x in fixed or exponent notation
LayoutImpl(ds, x, useExp, dot0) ==
  LET t == DigitsText(ds)
      n == Len(ds)
  IN  IF useExp
      THEN <<t[1]>> \o (IF n > 1 THEN <<".">> \o SubSeq(t, 2, n) ELSE <<>>)
           \o <<"e", IF x < 0 THEN "-" ELSE "+">>
           \o IntText(IF x < 0 THEN -x ELSE x, 2)
      ELSE IF x < 0 THEN <<"0", ".">> \o [i \in 1..(-x - 1) |-> "0"] \o t
      ELSE IF n <= x + 1
           THEN t \o [i \in 1..(x + 1 - n) |-> "0"] \o (IF dot0 THEN <<".", "0">> ELSE <<>>)
      ELSE SubSeq(t, 1, x + 1) \o <<".">> \o SubSeq(t, x + 2, n)

SignText(x) == IF x.s = 1 THEN <<"-">> ELSE <<>>

\* format(x, ".<p>g")
FormatGImpl(x, p) ==
  IF x.k = "nan" THEN <<"n", "a", "n">>
  ELSE IF x.k = "inf" THEN SignText(x) \o <<"i", "n", "f">>
  ELSE IF x.m = <<>> THEN SignText(x) \o <<"0">>
  ELSE LET d == DecDigits(x.m, x.e, p)
       IN  SignText(x) \o Layout(StripZeros(d.ds), d.x, d.x < -4 \/ d.x >= p, FALSE)

\* Whether the decimal q * 10^(lg - n + 1) reads back as x
ReadsBack(x, q, lg, n) ==
  RoundRat(x.s, BMul(q, BPow10(Max2(lg - n + 1, 0))),
           BPow10(Max2(n - 1 - lg, 0)), 0) = x

\* The n-digit decimal that reads back as x, if there is one: the n-digit
\* decimal nearest to x, or else its neighbour on the other side of x.
\* Seventeen digits always read back.
ShortAtImpl(x, n) ==
  LET lg     == FloorLog10(x.m, x.e)
      d      == Scaled(x.m, x.e, lg, n)
      up     == d.half = 1 \/ (d.half = 0 /\ BIsOdd(d.q))
      first  == IF up THEN BAdd(d.q, BOne) ELSE d.q
      second == IF up THEN d.q ELSE BAdd(d.q, BOne)
  IN  IF n >= 17 \/ ReadsBack(x, first, lg, n)
      THEN [ok |-> TRUE, q |-> first, lg |-> lg]
      ELSE IF ~d.zero /\ second # <<>> /\ ReadsBack(x, second, lg, n)
           THEN [ok |-> TRUE, q |-> second, lg |-> lg]
      ELSE [ok |-> FALSE, q |-> <<>>, lg |-> lg]

\* The least number of digits in lo..hi that read back as x; when n digits
\* do, so do n + 1.
RECURSIVE ShortLen(_, _, _)
ShortLen(x, lo, hi) ==
  IF lo = hi THEN lo
  ELSE LET mid == (lo + hi) \div 2
       IN  IF ShortAt(x, mid).ok THEN ShortLen(x, lo, mid) ELSE ShortLen(x, mid + 1, hi)

\* The shortest digits that read back as x, with the decimal exponent of the
\* first digit
ShortDigitsImpl(x) ==
  LET n  == ShortLen(x, 1, 17)
      a  == ShortAt(x, n)
      ds == BigDigits(a.q, n, <<>>)
  IN  IF Len(ds) > n THEN [ds |-> SubSeq(ds, 1, n), x |-> a.lg + 1]
      ELSE [ds |-> ds, x |-> a.lg]

\* repr(x), which is also str(x) and format(x, "")
ReprImpl(x) ==
  IF x.k = "nan" THEN <<"n", "a", "n">>
  ELSE IF x.k = "inf" THEN SignText(x) \o <<"i", "n", "f">>
  ELSE IF x.m = <<>> THEN SignText(x) \o <<"0", ".", "0">>
  ELSE LET d == ShortDigits(x)
       IN  SignText(x) \o Layout(StripZeros(d.ds), d.x, d.x < -4 \/ d.x >= 16, TRUE)

(***************************************************************************)
(* Python values and outcomes.  None is a value of its own kind beside the *)
(* floats; a call either returns a value or raises an exception whose      *)
(* str() is msg.                                                           *)
(***************************************************************************)
None == [k |-> "none", s |-> 0, m |-> <<>>, e |-> 0]
IsFloat(v) == v.k \in {"fin", "inf", "nan"}

Ret(v) == [raised |-> FALSE, exc |-> "", msg |-> <<>>, v |-> v]
Raise(exc, msg) == [raised |-> TRUE, exc |-> exc, msg |-> msg, v |-> None]

\* a float literal of the source
Lit(text) == FloatFromText(text).v

\* x ** n for the integer literals n >= 1 of the table; the bases there are
\* powers of two, so the products are exact, as C's pow is
RECURSIVE FPow(_, _)
FPow(x, n) == IF n = 1 THEN x ELSE FMul(FPow(x, n - 1), x)

\* repr() of a str without quotes, backslashes or unprintable characters,
\* which is what str(KeyError(key)) gives
ReprStr(s) == <<"'">> \o s \o <<"'">>

\* x / y, x * y, x + y on Python values
PyDiv(x, y) ==
  IF IsZero(y) THEN Raise("ZeroDivisionError", <<"f", "l", "o", "a", "t", " ", "d", "i", "v", "i", "s", "i", "o", "n", " ", "b", "y", " ", "z", "e", "r", "o">>)
  ELSE Ret(FDiv(x, y))

PyMul(x, y) ==
  IF x = None
  THEN Raise("TypeError", <<"u", "n", "s", "u", "p", "p", "o", "r", "t", "e", "d", " ", "o", "p", "e", "r", "a", "n", "d", " ", "t", "y", "p", "e", "(", "s", ")", " ", "f", "o", "r", " ", "*", ":", " ", "'", "N", "o", "n", "e", "T", "y", "p", "e", "'", " ", "a", "n", "d", " ", "'", "f", "l", "o", "a", "t", "'">>)
  ELSE Ret(FMul(x, y))

PyAdd(x, y) ==
  IF x = None
  THEN Raise("TypeError", <<"u", "n", "s", "u", "p", "p", "o", "r", "t", "e", "d", " ", "o", "p", "e", "r", "a", "n", "d", " ", "t", "y", "p", "e", "(", "s", ")", " ", "f", "o", "r", " ", "+", ":", " ", "'", "N", "o", "n", "e", "T", "y", "p", "e", "'", " ", "a", "n", "d", " ", "'", "f", "l", "o", "a", "t", "'">>)
  ELSE Ret(FAdd(x, y))

\* float(value): value is a str, a float or None
StrValue(s) == [t |-> "str", s |-> s, f |-> None]
FloatValue(f) == [t |-> "float", s |-> <<>>, f |-> f]
NoneValue == [t |-> "none", s |-> <<>>, f |-> None]

PyFloat(value) ==
  IF value.t = "float" THEN Ret(value.f)
  ELSE IF value.t = "none"
       THEN Raise("TypeError", <<"f", "l", "o", "a", "t", "(", ")", " ", "a", "r", "g", "u", "m", "e", "n", "t", " ", "m", "u", "s", "t", " ", "b", "e", " ", "a", " ", "s", "t", "r", "i", "n", "g", " ", "o", "r", " ", "a", " ", "r", "e", "a", "l", " ", "n", "u", "m", "b", "e", "r", ",", " ", "n", "o", "t", " ", "'", "N", "o", "n", "e", "T", "y", "p", "e", "'">>)
  ELSE LET p == FloatFromText(value.s)
       IN  IF p.ok THEN Ret(p.v)
           ELSE Raise("ValueError", <<"c", "o", "u", "l", "d", " ", "n", "o", "t", " ", "c", "o", "n", "v", "e", "r", "t", " ", "s", "t", "r", "i", "n", "g", " ", "t", "o", " ", "f", "l", "o", "a", "t", ":", " ">> \o ReprStr(value.s))

(***************************************************************************)
(* Unit definitions.  A dict is the sequence of its items in insertion     *)
(* order.                                                                  *)
(***************************************************************************)
Item(key, val) == [key |-> key, val |-> val]
DictHas(d, key) == \E i \in 1..Len(d) : d[i].key = key
DictGet(d, key) == d[CHOOSE i \in 1..Len(d) : d[i].key = key].val
DictKeys(d) == [i \in 1..Len(d) |-> d[i].key]
Member(x, list) == \E i \in 1..Len(list) : list[i] = x

LINEAR_UNITS ==
  <<
  \* "length"
  Item(<<"l", "e", "n", "g", "t", "h">>, <<
      \* "meter (m)": 1.0
      Item(<<"m", "e", "t", "e", "r", " ", "(", "m", ")">>,
           Lit(<<"1", ".", "0">>)),
      \* "kilometer (km)": 1000.0
      Item(<<"k", "i", "l", "o", "m", "e", "t", "e", "r", " ", "(", "k", "m", ")">>,
           Lit(<<"1", "0", "0", "0", ".", "0">>)),
      \* "centimeter (cm)": 0.01
      Item(<<"c", "e", "n", "t", "i", "m", "e", "t", "e", "r", " ", "(", "c", "m", ")">>,
           Lit(<<"0", ".", "0", "1">>)),
      \* "millimeter (mm)": 0.001
      Item(<<"m", "i", "l", "l", "i", "m", "e", "t", "e", "r", " ", "(", "m", "m", ")">>,
           Lit(<<"0", ".", "0", "0", "1">>)),
      \* "mile (mi)": 1609.344
      Item(<<"m", "i", "l", "e", " ", "(", "m", "i", ")">>,
           Lit(<<"1", "6", "0", "9", ".", "3", "4", "4">>)),
      \* "yard (yd)": 0.9144
      Item(<<"y", "a", "r", "d", " ", "(", "y", "d", ")">>,
           Lit(<<"0", ".", "9", "1", "4", "4">>)),
      \* "foot (ft)": 0.3048
      Item(<<"f", "o", "o", "t", " ", "(", "f", "t", ")">>,
           Lit(<<"0", ".", "3", "0", "4", "8">>)),
      \* "inch (in)": 0.0254
      Item(<<"i", "n", "c", "h", " ", "(", "i", "n", ")">>,
           Lit(<<"0", ".", "0", "2", "5", "4">>)) >>),
  \* "mass"
  Item(<<"m", "a", "s", "s">>, <<
      \* "kilogram (kg)": 1.0
      Item(<<"k", "i", "l", "o", "g", "r", "a", "m", " ", "(", "k", "g", ")">>,
           Lit(<<"1", ".", "0">>)),
      \* "gram (g)": 0.001
      Item(<<"g", "r", "a", "m", " ", "(", "g", ")">>,
           Lit(<<"0", ".", "0", "0", "1">>)),
      \* "milligram (mg)": 1e-6
      Item(<<"m", "i", "l", "l", "i", "g", "r", "a", "m", " ", "(", "m", "g", ")">>,
           Lit(<<"1", "e", "-", "6">>)),
      \* "metric ton (t)": 1000.0
      Item(<<"m", "e", "t", "r", "i", "c", " ", "t", "o", "n", " ", "(", "t", ")">>,
           Lit(<<"1", "0", "0", "0", ".", "0">>)),
      \* "pound (lb)": 0.45359237
      Item(<<"p", "o", "u", "n", "d", " ", "(", "l", "b", ")">>,
           Lit(<<"0", ".", "4", "5", "3", "5", "9", "2", "3", "7">>)),
      \* "ounce (oz)": 0.028349523125
      Item(<<"o", "u", "n", "c", "e", " ", "(", "o", "z", ")">>,
           Lit(<<"0", ".", "0", "2", "8", "3", "4", "9", "5", "2", "3", "1", "2", "5">>)) >>),
  \* "volume"
  Item(<<"v", "o", "l", "u", "m", "e">>, <<
      \* "liter (L)": 1.0
      Item(<<"l", "i", "t", "e", "r", " ", "(", "L", ")">>,
           Lit(<<"1", ".", "0">>)),
      \* "milliliter (mL)": 0.001
      Item(<<"m", "i", "l", "l", "i", "l", "i", "t", "e", "r", " ", "(", "m", "L", ")">>,
           Lit(<<"0", ".", "0", "0", "1">>)),
      \* "US gallon (gal)": 3.785411784
      Item(<<"U", "S", " ", "g", "a", "l", "l", "o", "n", " ", "(", "g", "a", "l", ")">>,
           Lit(<<"3", ".", "7", "8", "5", "4", "1", "1", "7", "8", "4">>)),
      \* "US quart (qt)": 0.946352946
      Item(<<"U", "S", " ", "q", "u", "a", "r", "t", " ", "(", "q", "t", ")">>,
           Lit(<<"0", ".", "9", "4", "6", "3", "5", "2", "9", "4", "6">>)),
      \* "US pint (pt)": 0.473176473
      Item(<<"U", "S", " ", "p", "i", "n", "t", " ", "(", "p", "t", ")">>,
           Lit(<<"0", ".", "4", "7", "3", "1", "7", "6", "4", "7", "3">>)),
      \* "cup (US)": 0.2365882365
      Item(<<"c", "u", "p", " ", "(", "U", "S", ")">>,
           Lit(<<"0", ".", "2", "3", "6", "5", "8", "8", "2", "3", "6", "5">>)),
      \* "tablespoon (tbsp)": 0.01478676478
      Item(<<"t", "a", "b", "l", "e", "s", "p", "o", "o", "n", " ", "(", "t", "b", "s", "p", ")">>,
           Lit(<<"0", ".", "0", "1", "4", "7", "8", "6", "7", "6", "4", "7", "8">>)),
      \* "teaspoon (tsp)": 0.00492892159
      Item(<<"t", "e", "a", "s", "p", "o", "o", "n", " ", "(", "t", "s", "p", ")">>,
           Lit(<<"0", ".", "0", "0", "4", "9", "2", "8", "9", "2", "1", "5", "9">>)) >>),
  \* "time"
  Item(<<"t", "i", "m", "e">>, <<
      \* "second (s)": 1.0
      Item(<<"s", "e", "c", "o", "n", "d", " ", "(", "s", ")">>,
           Lit(<<"1", ".", "0">>)),
      \* "minute (min)": 60.0
      Item(<<"m", "i", "n", "u", "t", "e", " ", "(", "m", "i", "n", ")">>,
           Lit(<<"6", "0", ".", "0">>)),
      \* "hour (h)": 3600.0
      Item(<<"h", "o", "u", "r", " ", "(", "h", ")">>,
           Lit(<<"3", "6", "0", "0", ".", "0">>)),
      \* "day (d)": 86400.0
      Item(<<"d", "a", "y", " ", "(", "d", ")">>,
           Lit(<<"8", "6", "4", "0", "0", ".", "0">>)) >>),
  \* "speed"
  Item(<<"s", "p", "e", "e", "d">>, <<
      \* "meter/second (m/s)": 1.0
      Item(<<"m", "e", "t", "e", "r", "/", "s", "e", "c", "o", "n", "d", " ", "(", "m", "/", "s", ")">>,
           Lit(<<"1", ".", "0">>)),
      \* "kilometer/hour (km/h)": 1000.0/3600.0
      Item(<<"k", "i", "l", "o", "m", "e", "t", "e", "r", "/", "h", "o", "u", "r", " ", "(", "k", "m", "/", "h", ")">>,
           FDiv(Lit(<<"1", "0", "0", "0", ".", "0">>), Lit(<<"3", "6", "0", "0", ".", "0">>))),
      \* "mile/hour (mph)": 1609.344/3600.0
      Item(<<"m", "i", "l", "e", "/", "h", "o", "u", "r", " ", "(", "m", "p", "h", ")">>,
           FDiv(Lit(<<"1", "6", "0", "9", ".", "3", "4", "4">>), Lit(<<"3", "6", "0", "0", ".", "0">>))),
      \* "knot (kn)": 1852.0/3600.0
      Item(<<"k", "n", "o", "t", " ", "(", "k", "n", ")">>,
           FDiv(Lit(<<"1", "8", "5", "2", ".", "0">>), Lit(<<"3", "6", "0", "0", ".", "0">>))) >>),
  \* "data"
  Item(<<"d", "a", "t", "a">>, <<
      \* "byte (B)": 1.0
      Item(<<"b", "y", "t", "e", " ", "(", "B", ")">>,
           Lit(<<"1", ".", "0">>)),
      \* "kilobyte (KB, 1024)": 1024.0
      Item(<<"k", "i", "l", "o", "b", "y", "t", "e", " ", "(", "K", "B", ",", " ", "1", "0", "2", "4", ")">>,
           Lit(<<"1", "0", "2", "4", ".", "0">>)),
      \* "megabyte (MB, 1024)": 1024.0**2
      Item(<<"m", "e", "g", "a", "b", "y", "t", "e", " ", "(", "M", "B", ",", " ", "1", "0", "2", "4", ")">>,
           FPow(Lit(<<"1", "0", "2", "4", ".", "0">>), 2)),
      \* "gigabyte (GB, 1024)": 1024.0**3
      Item(<<"g", "i", "g", "a", "b", "y", "t", "e", " ", "(", "G", "B", ",", " ", "1", "0", "2", "4", ")">>,
           FPow(Lit(<<"1", "0", "2", "4", ".", "0">>), 3)),
      \* "terabyte (TB, 1024)": 1024.0**4
      Item(<<"t", "e", "r", "a", "b", "y", "t", "e", " ", "(", "T", "B", ",", " ", "1", "0", "2", "4", ")">>,
           FPow(Lit(<<"1", "0", "2", "4", ".", "0">>), 4)) >>)
  >>

TEMP_UNITS ==
  << <<"C", "e", "l", "s", "i", "u", "s", " ", "(", "U+00B0", "C", ")">>,
     <<"F", "a", "h", "r", "e", "n", "h", "e", "i", "t", " ", "(", "U+00B0", "F", ")">>,
     <<"K", "e", "l", "v", "i", "n", " ", "(", "K", ")">> >>

\* streamlit_app.py holds the same table, item for item
st_LINEAR_UNITS == LINEAR_UNITS
st_TEMP_UNITS == TEMP_UNITS

temperature == <<"t", "e", "m", "p", "e", "r", "a", "t", "u", "r", "e">>

ALL_CATEGORIES == DictKeys(LINEAR_UNITS) \o <<temperature>>
st_ALL_CATEGORIES == DictKeys(st_LINEAR_UNITS) \o <<temperature>>

Celsius == <<"C", "e", "l", "s", "i", "u", "s">>
Fahrenheit == <<"F", "a", "h", "r", "e", "n", "h", "e", "i", "t">>
Kelvin == <<"K", "e", "l", "v", "i", "n">>

F32 == Lit(<<"3", "2", ".", "0">>)
F5 == Lit(<<"5", ".", "0">>)
F9 == Lit(<<"9", ".", "0">>)
F273_15 == Lit(<<"2", "7", "3", ".", "1", "5">>)

(***************************************************************************)
(* Conversion logic of app.py.                                             *)
(***************************************************************************)
UnsupportedUnit == <<"U", "n", "s", "u", "p", "p", "o", "r", "t", "e", "d", " ", "u", "n", "i", "t", " ", "f", "o", "r", " ", "s", "e", "l", "e", "c", "t", "e", "d", " ", "c", "a", "t", "e", "g", "o", "r", "y", ".">>
UnknownTemperatureUnit == <<"U", "n", "k", "n", "o", "w", "n", " ", "t", "e", "m", "p", "e", "r", "a", "t", "u", "r", "e", " ", "u", "n", "i", "t", ".">>
EnterValidNumericValue == <<"P", "l", "e", "a", "s", "e", " ", "e", "n", "t", "e", "r", " ", "a", " ", "v", "a", "l", "i", "d", " ", "n", "u", "m", "e", "r", "i", "c", " ", "v", "a", "l", "u", "e", ".">>
ErrorPrefix == <<"E", "r", "r", "o", "r", ":", " ">>

\* Variants of convert_linear with one plausible slip each: a missing category
\* read as a category without units (LINEAR_UNITS.get(category, {})), the
\* factors of the two units exchanged, and the division by the target's
\* factor left out.
convert_linear_get(category, from_unit, to_unit, value) ==
  LET factors == IF DictHas(LINEAR_UNITS, category)
                 THEN DictGet(LINEAR_UNITS, category) ELSE <<>>
  IN  IF ~DictHas(factors, from_unit) \/ ~DictHas(factors, to_unit)
      THEN Raise("ValueError", UnsupportedUnit)
      ELSE LET value_in_base == FMul(value, DictGet(factors, from_unit))
           IN  PyDiv(value_in_base, DictGet(factors, to_unit))

convert_linear_swapped(category, from_unit, to_unit, value) ==
  IF ~DictHas(LINEAR_UNITS, category) THEN Raise("KeyError", ReprStr(category))
  ELSE LET factors == DictGet(LINEAR_UNITS, category)
       IN  IF ~DictHas(factors, from_unit) \/ ~DictHas(factors, to_unit)
           THEN Raise("ValueError", UnsupportedUnit)
           ELSE LET value_in_base == FMul(value, DictGet(factors, to_unit))
                IN  PyDiv(value_in_base, DictGet(factors, from_unit))

convert_linear_base(category, from_unit, to_unit, value) ==
  IF ~DictHas(LINEAR_UNITS, category) THEN Raise("KeyError", ReprStr(category))
  ELSE LET factors == DictGet(LINEAR_UNITS, category)
       IN  IF ~DictHas(factors, from_unit) \/ ~DictHas(factors, to_unit)
           THEN Raise("ValueError", UnsupportedUnit)
           ELSE Ret(FMul(value, DictGet(factors, from_unit)))

convert_linear(category, from_unit, to_unit, value) ==
  IF ~DictHas(LINEAR_UNITS, category) THEN Raise("KeyError", ReprStr(category))
  ELSE LET factors == DictGet(LINEAR_UNITS, category)
       IN  IF ~DictHas(factors, from_unit) \/ ~DictHas(factors, to_unit)
           THEN Raise("ValueError", UnsupportedUnit)
           ELSE LET value_in_base == FMul(value, DictGet(factors, from_unit))
                IN  PyDiv(value_in_base, DictGet(factors, to_unit))

\* temp_to_celsius with the offset of Fahrenheit left out
temp_to_celsius_no_offset(v, from_u) ==
  IF Contains(from_u, Celsius) THEN Ret(v)
  ELSE IF Contains(from_u, Fahrenheit) THEN Ret(FDiv(FMul(v, F5), F9))
  ELSE IF Contains(from_u, Kelvin) THEN Ret(FSub(v, F273_15))
  ELSE Raise("ValueError", UnknownTemperatureUnit)

temp_to_celsius(v, from_u) ==
  IF Contains(from_u, Celsius) THEN Ret(v)
  ELSE IF Contains(from_u, Fahrenheit) THEN Ret(FDiv(FMul(FSub(v, F32), F5), F9))
  ELSE IF Contains(from_u, Kelvin) THEN Ret(FSub(v, F273_15))
  ELSE Raise("ValueError", UnknownTemperatureUnit)

celsius_to_target(v_c, to_u) ==
  IF Contains(to_u, Celsius) THEN Ret(v_c)
  ELSE IF Contains(to_u, Fahrenheit) THEN Ret(FAdd(FDiv(FMul(v_c, F9), F5), F32))
  ELSE IF Contains(to_u, Kelvin) THEN Ret(FAdd(v_c, F273_15))
  ELSE Raise("ValueError", UnknownTemperatureUnit)

\* f"{x:.6g}"
fmt(x) == FormatG(x, 6)

\* What a call of convert did: it returned text or raised exc; val is the
\* float the value parsed to, out the converted number before formatting
\* (None where there is none), branch the conversion that was entered.
Returned(text, val, out, branch) ==
  [kind |-> "return", text |-> text, exc |-> "", val |-> val, out |-> out, branch |-> branch]
Raised(exc, msg, val, branch) ==
  [kind |-> "raise", text |-> msg, exc |-> exc, val |-> val, out |-> None, branch |-> branch]

convert(category, from_unit, to_unit, value) ==
  LET parsed == PyFloat(value)
  IN  IF parsed.raised THEN Returned(EnterValidNumericValue, None, None, "none")
      ELSE LET v    == parsed.v
               temp == category = temperature
               c    == temp_to_celsius(v, from_unit)
               r    == IF temp
                       THEN (IF c.raised THEN c ELSE celsius_to_target(c.v, to_unit))
                       ELSE convert_linear(category, from_unit, to_unit, v)
               br   == IF temp THEN "temperature" ELSE "linear"
           IN  IF r.raised THEN Returned(ErrorPrefix \o r.msg, v, None, br)
               ELSE Returned(fmt(v) \o <<" ">> \o from_unit \o <<" ", "=", " ">>
                               \o fmt(r.v) \o <<" ">> \o to_unit,
                             v, r.v, br)

(***************************************************************************)
(* Conversion logic of streamlit_app.py.                                   *)
(***************************************************************************)
st_EnterValidNumber == <<"U+274C", " ", "P", "l", "e", "a", "s", "e", " ", "e", "n", "t", "e", "r", " ", "a", " ", "v", "a", "l", "i", "d", " ", "n", "u", "m", "b", "e", "r", ".">>

st_convert_linear(category, from_unit, to_unit, value) ==
  IF ~DictHas(st_LINEAR_UNITS, category) THEN Raise("KeyError", ReprStr(category))
  ELSE LET factors == DictGet(st_LINEAR_UNITS, category)
       IN  IF ~DictHas(factors, from_unit) THEN Raise("KeyError", ReprStr(from_unit))
           ELSE LET value_in_base == FMul(value, DictGet(factors, from_unit))
                IN  IF ~DictHas(factors, to_unit) THEN Raise("KeyError", ReprStr(to_unit))
                    ELSE PyDiv(value_in_base, DictGet(factors, to_unit))

\* no else branch: an unmatched unit falls off the end and returns None
st_temp_to_celsius(v, from_u) ==
  IF Contains(from_u, Celsius) THEN Ret(v)
  ELSE IF Contains(from_u, Fahrenheit) THEN Ret(FDiv(FMul(FSub(v, F32), F5), F9))
  ELSE IF Contains(from_u, Kelvin) THEN Ret(FSub(v, F273_15))
  ELSE Ret(None)

st_celsius_to_target(v_c, to_u) ==
  IF Contains(to_u, Celsius) THEN Ret(v_c)
  ELSE IF Contains(to_u, Fahrenheit)
       THEN LET p == PyMul(v_c, F9)
            IN  IF p.raised THEN p ELSE PyAdd(FDiv(p.v, F5), F32)
  ELSE IF Contains(to_u, Kelvin) THEN PyAdd(v_c, F273_15)
  ELSE Ret(None)

st_convert(category, from_unit, to_unit, value) ==
  LET parsed == PyFloat(value)
  IN  IF parsed.raised THEN Returned(st_EnterValidNumber, None, None, "none")
      ELSE LET v    == parsed.v
               temp == category = temperature
               c    == st_temp_to_celsius(v, from_unit)
               r    == IF temp THEN st_celsius_to_target(c.v, to_unit)
                       ELSE st_convert_linear(category, from_unit, to_unit, v)
               br   == IF temp THEN "temperature" ELSE "linear"
           IN  IF r.raised THEN Raised(r.exc, r.msg, v, br)
               ELSE IF r.v = None
                    THEN Raised("TypeError",
                                <<"u", "n", "s", "u", "p", "p", "o", "r", "t", "e", "d", " ", "f", "o", "r", "m", "a", "t", " ", "s", "t", "r", "i", "n", "g", " ", "p", "a", "s", "s", "e", "d", " ", "t", "o", " ", "N", "o", "n", "e", "T", "y", "p", "e", ".", "_", "_", "f", "o", "r", "m", "a", "t", "_", "_">>,
                                v, br)
               ELSE Returned(Repr(v) \o <<" ">> \o from_unit \o <<" ", "=", " ">>
                               \o FormatG(r.v, 6) \o <<" ">> \o to_unit,
                             v, r.v, br)

(***************************************************************************)
(* UI helpers and event handlers of app.py (Gradio).                       *)
(***************************************************************************)
units_for_category(category) ==
  IF category = temperature THEN TEMP_UNITS
  ELSE DictKeys(DictGet(LINEAR_UNITS, category))

\* on_category_change that offers the new choices but takes the two
\* defaults from the units of the first category
on_category_change_stale(category) ==
  LET units        == units_for_category(category)
      first        == units_for_category(ALL_CATEGORIES[1])
      default_from == first[1]
      default_to   == IF Len(first) > 1 THEN first[2] ELSE first[1]
  IN  << [choices |-> units, value |-> default_from],
         [choices |-> units, value |-> default_to] >>

\* the updates of the two dropdowns (from_unit, to_unit)
on_category_change(category) ==
  LET units        == units_for_category(category)
      default_from == units[1]
      default_to   == IF Len(units) > 1 THEN units[2] ELSE units[1]
  IN  << [choices |-> units, value |-> default_from],
         [choices |-> units, value |-> default_to] >>

swap_units(from_u, to_u) == <<to_u, from_u>>

(***************************************************************************)
(* The definitions Call applies, by name.                                  *)
(***************************************************************************)
Call(f, args) ==
  CASE f = "BMul" -> BMulImpl(args[1], args[2])
    [] f = "BPow10" -> BPow10Impl(args[1])
    [] f = "BDivRem" -> BDivRemImpl(args[1], args[2])
    [] f = "RoundRat" -> RoundRatImpl(args[1], args[2], args[3], args[4])
    [] f = "FMul" -> FMulImpl(args[1], args[2])
    [] f = "FDiv" -> FDivImpl(args[1], args[2])
    [] f = "FAdd" -> FAddImpl(args[1], args[2])
    [] f = "FloatFromText" -> FloatFromTextImpl(args[1])
    [] f = "FormatG" -> FormatGImpl(args[1], args[2])
    [] f = "Repr" -> ReprImpl(args[1])
    [] f = "GePow10" -> GePow10Impl(args[1], args[2], args[3])
    [] f = "FloorLog10" -> FloorLog10Impl(args[1], args[2])
    [] f = "Scaled" -> ScaledImpl(args[1], args[2], args[3], args[4])
    [] f = "DecDigits" -> DecDigitsImpl(args[1], args[2], args[3])
    [] f = "Layout" -> LayoutImpl(args[1], args[2], args[3], args[4])
    [] f = "ShortAt" -> ShortAtImpl(args[1], args[2])
    [] f = "ShortDigits" -> ShortDigitsImpl(args[1])
    [] f = "convert" -> convert(args[1], args[2], args[3], args[4])
    [] f = "convert_linear" -> convert_linear(args[1], args[2], args[3], args[4])
    [] f = "st_convert" -> st_convert(args[1], args[2], args[3], args[4])
    [] f = "st_convert_linear" -> st_convert_linear(args[1], args[2], args[3], args[4])
    [] f = "units_for_category" -> units_for_category(args[1])
    [] f = "on_category_change" -> on_category_change(args[1])
    [] f = "ALL_CATEGORIES" -> ALL_CATEGORIES
    [] f = "Lit" -> Lit(args[1])

(***************************************************************************)
(* Bounds of the model and the inputs drawn within them.                   *)
(***************************************************************************)
\* how many units of a category, in the table's order, are drawn as inputs
NumUnits == 3
\* how many of the sample values are drawn as inputs
NumValues == 6
\* how many of the values a user enters in the Gradio number field are drawn
NumUiValues == 1

Prefix(list, n) == SubSeq(list, 1, Min2(n, Len(list)))
Range(list) == {list[i] : i \in 1..Len(list)}

weight == <<"w", "e", "i", "g", "h", "t">>
kg == <<"k", "g">>
lb == <<"l", "b">>

Variants == {"app", "streamlit"}
Categories == Range(Call("ALL_CATEGORIES", <<>>)) \cup {weight}

\* units of the category, and labels that are none of its units: "kg", and
\* "Celsius", which is no temperature unit but contains the name of one
UnitChoices(c) ==
  IF c # weight
  THEN Range(Prefix(Call("units_for_category", <<c>>), NumUnits)) \cup {kg, Celsius}
  ELSE {kg, lb}

Samples ==
  << StrValue(<<"1">>),
     StrValue(<<"n", "o", "t", "-", "a", "-", "n", "u", "m", "b", "e", "r">>),
     StrValue(<<"n", "a", "n">>),
     StrValue(<<"1", "0", "7", "3", "7", "4", "1", "8", "2", "4">>),
     StrValue(<<"1", "e", "-", "1", "0">>),
     StrValue(<<"1", "e", "3", "0", "8">>),
     StrValue(<<"9", "8", ".", "6">>),
     StrValue(<<"i", "n", "f">>),
     StrValue(<<"0", ".", "1">>),
     StrValue(<<"-", "4", "0">>) >>

Values == Range(Prefix(Samples, NumValues))

\* what the number field of the Gradio page can hold: a float, or None
\* when it is empty
UiSamples ==
  << FloatValue(Call("Lit", <<<<"1", ".", "0">>>>)),
     NoneValue,
     FloatValue(Call("Lit", <<<<"9", "8", ".", "6">>>>)),
     FloatValue(Call("Lit", <<<<"2", ".", "0">>>>)) >>

UiValues == Range(Prefix(UiSamples, NumUiValues + 1))

(***************************************************************************)
(* State.  The engine is stateless; the state is a request (the variant of *)
(* the program, the four arguments of convert), what the call did, and     *)
(* what converting the result back did.  In the Gradio page the request is *)
(* what the widgets hold and result is the Result textbox.                 *)
(***************************************************************************)
VARIABLES variant, in_category, in_from_unit, in_to_unit, from_choices, to_choices,
          in_value, pc, result, back

vars == <<variant, in_category, in_from_unit, in_to_unit, from_choices, to_choices,
          in_value, pc, result, back>>

NoResult ==
  [kind |-> "none", text |-> <<>>, exc |-> "", val |-> None, out |-> None, branch |-> "none"]
NoBack == Ret(None)

\* any request within the bounds, not yet served
Init ==
  /\ variant \in Variants
  /\ in_category \in Categories
  /\ in_from_unit \in UnitChoices(in_category)
  /\ in_to_unit \in UnitChoices(in_category)
  /\ from_choices = <<>>
  /\ to_choices = <<>>
  /\ in_value \in Values
  /\ pc = "ready"
  /\ result = NoResult
  /\ back = NoBack

\* app.py: convert(category, from_unit, to_unit, value)
AppConvert ==
  /\ pc = "ready"
  /\ variant = "app"
  /\ result' = Call("convert", <<in_category, in_from_unit, in_to_unit, in_value>>)
  /\ pc' = "done"
  /\ UNCHANGED <<variant, in_category, in_from_unit, in_to_unit, from_choices, to_choices, in_value, back>>

\* streamlit_app.py: convert(category, from_unit, to_unit, value)
StConvert ==
  /\ pc = "ready"
  /\ variant = "streamlit"
  /\ result' = Call("st_convert", <<in_category, in_from_unit, in_to_unit, in_value>>)
  /\ pc' = "done"
  /\ UNCHANGED <<variant, in_category, in_from_unit, in_to_unit, from_choices, to_choices, in_value, back>>

\* the number a linear conversion gave, converted back from to_unit to
\* from_unit by the same convert_linear
AppRoundTrip ==
  /\ pc = "done"
  /\ variant = "app"
  /\ result.kind = "return" /\ result.branch = "linear" /\ result.out # None
  /\ back' = Call("convert_linear", <<in_category, in_to_unit, in_from_unit, result.out>>)
  /\ pc' = "back"
  /\ UNCHANGED <<variant, in_category, in_from_unit, in_to_unit, from_choices, to_choices, in_value, result>>

StRoundTrip ==
  /\ pc = "done"
  /\ variant = "streamlit"
  /\ result.kind = "return" /\ result.branch = "linear" /\ result.out # None
  /\ back' = Call("st_convert_linear", <<in_category, in_to_unit, in_from_unit, result.out>>)
  /\ pc' = "back"
  /\ UNCHANGED <<variant, in_category, in_from_unit, in_to_unit, from_choices, to_choices, in_value, result>>

Next == AppConvert \/ StConvert \/ AppRoundTrip \/ StRoundTrip

Spec == Init /\ [][Next]_vars

(***************************************************************************)
(* The Gradio page of app.py: the widgets as built, and its events.        *)
(***************************************************************************)
meter_m == <<"m", "e", "t", "e", "r", " ", "(", "m", ")">>
kilometer_km == <<"k", "i", "l", "o", "m", "e", "t", "e", "r", " ", "(", "k", "m", ")">>
length == <<"l", "e", "n", "g", "t", "h">>

UiInit ==
  /\ variant = "app"
  /\ in_category = length
  /\ in_from_unit = meter_m
  /\ in_to_unit = kilometer_km
  /\ from_choices = Call("units_for_category", <<length>>)
  /\ to_choices = Call("units_for_category", <<length>>)
  /\ in_value = FloatValue(Call("Lit", <<<<"1", ".", "0">>>>))
  /\ pc = "ui"
  /\ result = NoResult
  /\ back = NoBack

\* the user picks another category: category.change runs on_category_change
CategoryChange ==
  \E c \in Categories \ {weight} :
     /\ pc = "ui"
     /\ c # in_category
     /\ in_category' = c
     /\ LET upd == Call("on_category_change", <<c>>)
        IN  /\ from_choices' = upd[1].choices
            /\ in_from_unit' = upd[1].value
            /\ to_choices' = upd[2].choices
            /\ in_to_unit' = upd[2].value
     /\ UNCHANGED <<variant, in_value, pc, result, back>>

\* swap_btn.click
SwapClick ==
  /\ pc = "ui"
  /\ LET upd == swap_units(in_from_unit, in_to_unit)
     IN  in_from_unit' = upd[1] /\ in_to_unit' = upd[2]
  /\ UNCHANGED <<variant, in_category, from_choices, to_choices, in_value, pc, result, back>>

\* the user picks one of the choices a dropdown offers
FromSelect ==
  \E u \in Range(Prefix(from_choices, NumUnits)) :
     /\ pc = "ui"
     /\ in_from_unit' = u
     /\ UNCHANGED <<variant, in_category, in_to_unit, from_choices, to_choices, in_value, pc, result, back>>

ToSelect ==
  \E u \in Range(Prefix(to_choices, NumUnits)) :
     /\ pc = "ui"
     /\ in_to_unit' = u
     /\ UNCHANGED <<variant, in_category, in_from_unit, from_choices, to_choices, in_value, pc, result, back>>

\* the user edits the number field
ValueEnter ==
  \E v \in UiValues :
     /\ pc = "ui"
     /\ in_value' = v
     /\ UNCHANGED <<variant, in_category, in_from_unit, in_to_unit, from_choices, to_choices, pc, result, back>>

\* convert_btn.click
ConvertClick ==
  /\ pc = "ui"
  /\ result' = Call("convert", <<in_category, in_from_unit, in_to_unit, in_value>>)
  /\ UNCHANGED <<variant, in_category, in_from_unit, in_to_unit, from_choices, to_choices, in_value, pc, back>>

UiNext ==
  CategoryChange \/ SwapClick \/ FromSelect \/ ToSelect \/ ValueEnter \/ ConvertClick

UiSpec == UiInit /\ [][UiNext]_vars

(***************************************************************************)
(* Properties.  A request is served once pc = "done"; Parsed is what       *)
(* float(value) gives for it.                                              *)
(***************************************************************************)
Parsed == PyFloat(in_value)
ParseOk == ~Parsed.raised
FiniteValue == ParseOk /\ IsFinite(Parsed.v)
ValidCategory == Member(in_category, ALL_CATEGORIES)
LinearCategory == DictHas(LINEAR_UNITS, in_category)
UnitsOk ==
  /\ ValidCategory
  /\ Member(in_from_unit, units_for_category(in_category))
  /\ Member(in_to_unit, units_for_category(in_category))
Success == result.kind = "return" /\ result.out # None

StartsWith(s, p) == Len(s) >= Len(p) /\ SubSeq(s, 1, Len(p)) = p
EndsWith(s, p) == Len(s) >= Len(p) /\ SubSeq(s, Len(s) - Len(p) + 1, Len(s)) = p
\* the text before the first space
FirstWord(s) == IF IndexOf(s, " ") = 0 THEN s ELSE SubSeq(s, 1, IndexOf(s, " ") - 1)

\* |z - v| <= 1e-9 * |v| for finite z and v, in exact arithmetic
WithinTol(z, v) ==
  LET e  == Min2(z.e, v.e)
      zz == BShl(z.m, z.e - e)
      vv == BShl(v.m, v.e - e)
      d  == IF z.s # v.s THEN BAdd(zz, vv)
            ELSE IF BCmp(zz, vv) >= 0 THEN BSub(zz, vv) ELSE BSub(vv, zz)
  IN  BCmp(BMul(d, BPow10(9)), vv) <= 0

\* finite, not zero and not subnormal
IsNormal(x) == IsFinite(x) /\ BBitLen(x.m) = MantBits

\* C1: a call of convert, of either variant, returns to its caller whatever
\* the arguments; no exception escapes it.
C1_NoExceptionEscapes == pc = "done" => result.kind = "return"

\* C2: app.py's convert, given a category outside ALL_CATEGORIES and a value
\* that parses, returns an error text that names the category, which is
\* neither the unknown-unit texts nor the invalid-value text, and carries no
\* converted number.
C2_UnknownCategory ==
  (pc = "done" /\ variant = "app" /\ ~ValidCategory /\ ParseOk)
    => /\ result.kind = "return"
       /\ result.out = None
       /\ result.text = ErrorPrefix \o ReprStr(in_category)
       /\ result.text # ErrorPrefix \o UnsupportedUnit
       /\ result.text # ErrorPrefix \o UnknownTemperatureUnit
       /\ result.text # EnterValidNumericValue

C2_Witness ==
  /\ pc = "done" /\ variant = "app"
  /\ in_category = weight /\ in_from_unit = kg /\ in_to_unit = lb
  /\ in_value = StrValue(<<"1">>)
  /\ result.text = <<"E", "r", "r", "o", "r", ":", " ", "'", "w", "e", "i", "g", "h", "t", "'">>

\* C3: with a category of ALL_CATEGORIES and a value that parses, a from or
\* to unit that is no member of the category's units never gives a success
\* text.
C3_UnknownUnitRejected ==
  (pc = "done" /\ ValidCategory /\ ParseOk /\ ~UnitsOk) => ~Success

\* C4: a value that does not parse to a finite number (a text that is no
\* number, or one that parses to nan or to an infinity) never gives a
\* success text.
C4_NonFiniteRejected ==
  (pc = "done" /\ ~FiniteValue) => ~Success

\* C5: converting a finite value from a unit of a category to the same unit
\* gives the value itself (looked at where the converted number is finite).
C5_Identity ==
  (pc = "done" /\ UnitsOk /\ in_from_unit = in_to_unit /\ FiniteValue
     /\ Success /\ IsFinite(result.out))
    => result.out = result.val

\* C6 as stated: for every finite value and every two units of a linear
\* category, converting there and back gives the value within 1e-9 of it.
C6_RoundTripAlways ==
  (pc = "back" /\ LinearCategory /\ UnitsOk /\ FiniteValue)
    => /\ ~back.raised
       /\ IsFinite(back.v)
       /\ WithinTol(back.v, result.val)

\* The four numbers a round trip computes stay in the range of the normal
\* floats, or the value is zero.
RoundTripInRange ==
  LET factors == DictGet(LINEAR_UNITS, in_category)
      f  == DictGet(factors, in_from_unit)
      t  == DictGet(factors, in_to_unit)
      b1 == FMul(result.val, f)
      o  == FDiv(b1, t)
      b2 == FMul(o, t)
      z  == FDiv(b2, f)
  IN  IsZero(result.val)
        \/ (IsNormal(b1) /\ IsNormal(o) /\ IsNormal(b2) /\ IsNormal(z))

\* C6: for two units of a linear category and a finite value, converting
\* there and back gives the value within 1e-9 of it, provided no product or
\* quotient on the way overflows or falls below the normal floats.
C6_RoundTrip ==
  (pc = "back" /\ LinearCategory /\ UnitsOk /\ FiniteValue /\ RoundTripInRange)
    => /\ ~back.raised
       /\ IsFinite(back.v)
       /\ WithinTol(back.v, result.val)

C6_Witness ==
  /\ pc = "back" /\ LinearCategory /\ UnitsOk /\ FiniteValue /\ RoundTripInRange
  /\ in_from_unit # in_to_unit
  /\ ~IsZero(result.val)
  /\ ~back.raised /\ IsFinite(back.v) /\ WithinTol(back.v, result.val)

\* C7: a success text begins with the value as the caller wrote it.
C7_EchoesInput ==
  (pc = "done" /\ Success /\ in_value.t = "str")
    => FirstWord(result.text) = in_value.s

\* C8: every factor of LINEAR_UNITS is finite and above zero; and for two
\* units of a linear category the converted number is value * factor[from] /
\* factor[to], the product first, each operation one float operation, and
\* the text shows that number formatted to six significant digits.
FactorsPositiveFinite ==
  \A i \in 1..Len(LINEAR_UNITS) :
     /\ Len(LINEAR_UNITS[i].val) > 0
     /\ \A j \in 1..Len(LINEAR_UNITS[i].val) :
           LET x == LINEAR_UNITS[i].val[j].val
           IN  IsFinite(x) /\ x.s = 0 /\ x.m # <<>>

C8_LinearFormula ==
  /\ FactorsPositiveFinite
  /\ (pc = "done" /\ LinearCategory /\ UnitsOk /\ ParseOk)
       => LET factors == DictGet(LINEAR_UNITS, in_category)
              want    == FDiv(FMul(Parsed.v, DictGet(factors, in_from_unit)),
                              DictGet(factors, in_to_unit))
          IN  /\ result.kind = "return"
              /\ result.out = want
              /\ EndsWith(result.text,
                          <<" ", "=", " ">> \o FormatG(want, 6) \o <<" ">> \o in_to_unit)

C8_Witness ==
  /\ pc = "done" /\ variant = "app"
  /\ in_category = length /\ in_from_unit = meter_m /\ in_to_unit = kilometer_km
  /\ in_value = StrValue(<<"1">>)
  /\ result.text = <<"1", " ", "m", "e", "t", "e", "r", " ", "(", "m", ")", " ", "=", " ", "0", ".", "0", "0", "1", " ", "k", "i", "l", "o", "m", "e", "t", "e", "r", " ", "(", "k", "m", ")">>

\* C9: for two units of TEMP_UNITS the converted number is the value taken
\* to Celsius (identity, (v - 32) * 5 / 9, v - 273.15) and from Celsius to
\* the target (identity, v * 9 / 5 + 32, v + 273.15); the temperature branch
\* is the one entered exactly when the category is "temperature", which is no
\* key of LINEAR_UNITS.
CelsiusC == <<"C", "e", "l", "s", "i", "u", "s", " ", "(", "U+00B0", "C", ")">>
FahrenheitF == <<"F", "a", "h", "r", "e", "n", "h", "e", "i", "t", " ", "(", "U+00B0", "F", ")">>
KelvinK == <<"K", "e", "l", "v", "i", "n", " ", "(", "K", ")">>

ToCelsius(v, u) ==
  CASE u = CelsiusC -> v
    [] u = FahrenheitF -> FDiv(FMul(FSub(v, F32), F5), F9)
    [] u = KelvinK -> FSub(v, F273_15)

FromCelsius(c, u) ==
  CASE u = CelsiusC -> c
    [] u = FahrenheitF -> FAdd(FDiv(FMul(c, F9), F5), F32)
    [] u = KelvinK -> FAdd(c, F273_15)

C9_TemperatureFormula ==
  /\ ~DictHas(LINEAR_UNITS, temperature)
  /\ (pc = "done" /\ ParseOk)
       => (result.branch = "temperature" <=> in_category = temperature)
  /\ (pc = "done" /\ in_category = temperature /\ UnitsOk /\ ParseOk)
       => /\ result.kind = "return"
          /\ result.out = FromCelsius(ToCelsius(Parsed.v, in_from_unit), in_to_unit)

C9_Witness ==
  /\ pc = "done" /\ in_category = temperature
  /\ in_from_unit = FahrenheitF /\ in_to_unit = KelvinK
  /\ in_value = StrValue(<<"1">>)
  /\ Success
  /\ result.out = FAdd(FDiv(FMul(FSub(Parsed.v, F32), F5), F9), F273_15)

\* C10: in the Gradio page, whatever the sequence of events, the two selected
\* units are units of the selected category, and the Result box never holds
\* an "Error: ..." text, the form of the unknown-unit and unknown-category
\* results.
C10_SelectionValid ==
  /\ pc = "ui"
  /\ Member(in_category, ALL_CATEGORIES)
  /\ Member(in_from_unit, units_for_category(in_category))
  /\ Member(in_to_unit, units_for_category(in_category))
  /\ ~StartsWith(result.text, ErrorPrefix)

C10_Witness ==
  /\ in_category = temperature
  /\ in_from_unit = FahrenheitF /\ in_to_unit = CelsiusC
  /\ result.text = <<"1", " ", "F", "a", "h", "r", "e", "n", "h", "e", "i", "t", " ", "(", "U+00B0", "F", ")", " ", "=", " ", "-", "1", "7", ".", "2", "2", "2", "2", " ", "C", "e", "l", "s", "i", "u", "s", " ", "(", "U+00B0", "C", ")">>

====
